---- MODULE Spec2Model ----
(***************************************************************************)
(* PrivacyGuard: the privacy-compliance decision engine.                   *)
(*                                                                         *)
(* The model has three parts.                                               *)
(*  - The pure functions: the nested-set containment query, the compliance *)
(*    evaluator, the flat-hierarchy baseline, JSON serialisation and the    *)
(*    SHA-256 cache key.  They are exercised by EvalSpec, whose initial     *)
(*    states draw an (app, preference) pair from bounded sets.              *)
(*  - The REST API (POST /api/apps, POST /api/users, PUT preferences,       *)
(*    POST /api/evaluate, DELETE /api/cache) over the three MongoDB         *)
(*    collections app, user and evaluateHash, exercised by Spec.            *)
(*  - The scripts around the API: the bootstrap of the policy taxonomy      *)
(*    (PolicySpec), the cache-poisoning simulation (PoisonSpec), the fog    *)
(*    simulator's edge cache (FogSpec) and IoT device (DeviceSpec), and the *)
(*    resource monitor's sampling loop (MonitorSpec, MonitorFairSpec).      *)
(*                                                                         *)
(* JavaScript objects are sequences of <<key, value>> pairs, in key order;  *)
(* a key that is absent reads as undefined.                                 *)
(***************************************************************************)
EXTENDS Integers, Sequences, FiniteSets, TLC

VARIABLES
    apps,       \* collection "app":  appId -> stored document, or NoDoc
    appBody,    \* ghost: the request body each app was created from
    users,      \* collection "user": userId -> stored document, or NoDoc
    cache,      \* collection "evaluateHash", in insertion order
    now,        \* the wall clock, in seconds
    res,        \* the last HTTP response
    inflight,   \* evaluations that found no cached result and have yet to store
    keyIn,      \* HashSpec: two (app, preference) pairs handed to the key functions
    keyOut,     \* HashSpec: the keys computed for them
    evApp,      \* EvalSpec: the app record handed to the pure functions
    evPref,     \* EvalSpec: the privacyPreference record handed to them
    evOut,      \* EvalSpec: what the last pure function returned
    policy,     \* collection "privacyPolicy", in insertion order
    policyOut,  \* PolicySpec: what the last taxonomy query returned
    localCache, \* FogSpec: edge node -> its Map of cached responses
    fogRes,     \* FogSpec: what the last request through the hierarchy returned
    device,     \* DeviceSpec: the fields of one IoTDevice
    devRes,     \* DeviceSpec: how the device's last sendRequest ended
    monitoring, \* MonitorSpec: the flag the sampling loop tests
    samples,    \* MonitorSpec: the number of samples taken
    monPc,      \* MonitorSpec: where monitorExecution stands
    taskPc,     \* MonitorSpec: where the sampling task stands
    fn          \* MonitorSpec: the monitored function's promise

apiVars  == <<apps, appBody, users, cache, now, res, inflight>>
evalVars == <<evApp, evPref, evOut, keyIn, keyOut>>
fogVars  == <<localCache, fogRes>>
simVars  == <<policy, policyOut, device, devRes, monitoring, samples, monPc, taskPc, fn>>
vars     == <<apps, appBody, users, cache, now, res, inflight, evApp, evPref, evOut,
             keyIn, keyOut, policy, policyOut, localCache, fogRes, device, devRes,
             monitoring, samples, monPc, taskPc, fn>>

(***************************************************************************)
(* Bounds of the model                                                     *)
(***************************************************************************)
MaxList == 2    \* longest id list of an app / allowed list of a preference
MaxRet  == 2    \* largest timeofRetention drawn, in seconds
MaxTime == 2    \* the clock runs from 0 to MaxTime
MaxCache == 2   \* most documents in the evaluateHash collection
MaxInflight == 2
MaxRequestCount == 2
MaxSamples == 4
MaxWork == 3  \* most evaluations between their lookup and their store

(***************************************************************************)
(* JavaScript objects                                                      *)
(***************************************************************************)
Range(s) == {s[i] : i \in DOMAIN s}

Has(obj, key) == \E i \in DOMAIN obj : obj[i][1] = key

Get(obj, key) == obj[CHOOSE i \in DOMAIN obj : obj[i][1] = key][2]

\* obj[key] || []
GetOrEmpty(obj, key) == IF Has(obj, key) THEN Get(obj, key) ELSE <<>>

\* a <= b in JavaScript for numbers that may be undefined: a comparison with
\* undefined is false
JsLessEq(a, ka, b, kb) == Has(a, ka) /\ Has(b, kb) /\ Get(a, ka) <= Get(b, kb)

(***************************************************************************)
(* Policy taxonomy: the nested-set trees the test-data generator installs  *)
(***************************************************************************)
PolicyAttributes ==
    ( "attr1" :> [name |-> "Location",   left |-> 1, right |-> 6,  parent |-> "none"]  @@
      "attr2" :> [name |-> "GPS",        left |-> 2, right |-> 3,  parent |-> "attr1"] @@
      "attr3" :> [name |-> "IP Address", left |-> 4, right |-> 5,  parent |-> "attr1"] @@
      "attr4" :> [name |-> "Contact",    left |-> 7, right |-> 10, parent |-> "none"]  @@
      "attr5" :> [name |-> "Email",      left |-> 8, right |-> 9,  parent |-> "attr4"] )

PolicyPurposes ==
    ( "purp1" :> [name |-> "Marketing",   left |-> 1, right |-> 4, parent |-> "none"]  @@
      "purp2" :> [name |-> "Advertising", left |-> 2, right |-> 3, parent |-> "purp1"] @@
      "purp3" :> [name |-> "Analytics",   left |-> 5, right |-> 6, parent |-> "none"] )

\* the order of the two arrays in the policy document
AttrOrder == <<"attr1", "attr2", "attr3", "attr4", "attr5">>
PurpOrder == <<"purp1", "purp2", "purp3">>

\* Ancestry as the parent fields give it: a is b, or a is the parent of b, or
\* the parent of its parent, ...
RECURSIVE ParentChain(_, _, _)
ParentChain(tree, a, b) ==
    \/ a = b
    \/ /\ tree[b].parent # "none"
       /\ ParentChain(tree, a, tree[b].parent)

(***************************************************************************)
(* The nested-set query                                                    *)
(***************************************************************************)
IntervalContains_RightLte(A, B) == A.left <= B.left /\ A.right <= B.right

\* left: { $lte: appAttribute.left }, right: { $gte: appAttribute.right }
IntervalContains(A, B) == A.left <= B.left /\ A.right >= B.right

NestedSetMatch_SelfOnly(tree, uppIds, appId) ==
    /\ appId \in DOMAIN tree
    /\ appId \in Range(uppIds)

NestedSetMatch_AnyListed(tree, uppIds, appId) ==
    /\ appId \in DOMAIN tree
    /\ \E n \in DOMAIN tree : n \in Range(uppIds)

\* The query of the evaluator: the policy element of the app's id is looked up
\* ($unwind/$match); when it exists, the policy is searched for an element whose
\* _id is one of the user's ids and whose interval contains the app element's.
NestedSetMatch(tree, uppIds, appId) ==
    /\ appId \in DOMAIN tree
    /\ \E n \in DOMAIN tree :
          /\ n \in Range(uppIds)
          /\ IntervalContains(tree[n], tree[appId])

(***************************************************************************)
(* Compliance evaluator (Helpers.PrivacyPreference.evaluate)               *)
(***************************************************************************)
\* every required id is allowed and neither excepted nor denied
idsAccepted(tree, required, allowedIds, exceptedIds, deniedIds) ==
    \A i \in DOMAIN required :
        /\ NestedSetMatch(tree, allowedIds, required[i])
        /\ ~NestedSetMatch(tree, exceptedIds, required[i])
        /\ ~NestedSetMatch(tree, deniedIds, required[i])

evaluateAttributes(app, pref) ==
    idsAccepted(PolicyAttributes, Get(app, "attributes"),
                GetOrEmpty(pref, "attributes"),
                GetOrEmpty(pref, "exceptions"),
                GetOrEmpty(pref, "denyAttributes"))

evaluatePurposes(app, pref) ==
    idsAccepted(PolicyPurposes, Get(app, "purposes"),
                GetOrEmpty(pref, "allowedPurposes"),
                GetOrEmpty(pref, "prohibitedPurposes"),
                GetOrEmpty(pref, "denyPurposes"))

evaluateTimeofRetention(app, pref) ==
    JsLessEq(app, "timeofRetention", pref, "timeofRetention")

\* isAccepted of the evaluator for (app, user)
evaluate(app, user) ==
    LET pref == Get(user, "privacyPreference")
    IN  /\ evaluateAttributes(app, pref)
        /\ evaluatePurposes(app, pref)
        /\ evaluateTimeofRetention(app, pref)

(***************************************************************************)
(* Flat-hierarchy baseline                                                 *)
(***************************************************************************)
evaluateAttributesFlat(appAttributes, userAttributes) ==
    \A i \in DOMAIN appAttributes :
        \E j \in DOMAIN userAttributes : userAttributes[j] = appAttributes[i]

evaluatePurposesFlat(appPurposes, userPurposes) ==
    \A i \in DOMAIN appPurposes :
        \E j \in DOMAIN userPurposes : userPurposes[j] = appPurposes[i]

timeAcceptedFlat_Strict(app, privacyPreference) ==
    /\ Has(app, "timeofRetention") /\ Has(privacyPreference, "timeofRetention")
    /\ Get(app, "timeofRetention") < Get(privacyPreference, "timeofRetention")

timeAcceptedFlat(app, privacyPreference) ==
    JsLessEq(app, "timeofRetention", privacyPreference, "timeofRetention")

evaluateFlatHierarchy(app, user) ==
    LET privacyPreference == Get(user, "privacyPreference")
        isAllowedAttrs  == evaluateAttributesFlat(Get(app, "attributes"),
                               Get(privacyPreference, "attributes"))
        isExceptedAttrs == evaluateAttributesFlat(Get(app, "attributes"),
                               GetOrEmpty(privacyPreference, "exceptions"))
        isDeniedAttrs   == evaluateAttributesFlat(Get(app, "attributes"),
                               GetOrEmpty(privacyPreference, "denyAttributes"))
        attrsAccepted   == isAllowedAttrs /\ ~isExceptedAttrs /\ ~isDeniedAttrs
        isAllowedPurposes  == evaluatePurposesFlat(Get(app, "purposes"),
                                  Get(privacyPreference, "allowedPurposes"))
        isExceptedPurposes == evaluatePurposesFlat(Get(app, "purposes"),
                                  GetOrEmpty(privacyPreference, "prohibitedPurposes"))
        isDeniedPurposes   == evaluatePurposesFlat(Get(app, "purposes"),
                                  GetOrEmpty(privacyPreference, "denyPurposes"))
        purposesAccepted == isAllowedPurposes /\ ~isExceptedPurposes /\ ~isDeniedPurposes
        timeAccepted == timeAcceptedFlat(app, privacyPreference)
        isAccepted   == attrsAccepted /\ purposesAccepted /\ timeAccepted
    IN  [ result |-> IF isAccepted THEN "grant" ELSE "deny",
          attrsAccepted |-> attrsAccepted,
          purposesAccepted |-> purposesAccepted,
          timeAccepted |-> timeAccepted ]

(***************************************************************************)
(* EvalSpec: the pure functions applied to bounded inputs                  *)
(***************************************************************************)
\* the lists of at most n ids, in the order of the policy array
IdLists(order, n) ==
    LET picks == UNION { [1..k -> 1..Len(order)] : k \in 0..n }
        incr  == { f \in picks : \A i, j \in DOMAIN f : i < j => f[i] < f[j] }
    IN  { [i \in DOMAIN f |-> order[f[i]]] : f \in incr }

\* a negative list: empty, or one id
NegLists(order) == {<<>>} \cup { <<order[i]>> : i \in DOMAIN order }

AppObject(attributes, purposes) ==
    << <<"name", "App">>, <<"attributes", attributes>>, <<"purposes", purposes>> >>

AppObjectWithRetention(attributes, purposes, timeofRetention) ==
    Append(AppObject(attributes, purposes), <<"timeofRetention", timeofRetention>>)

PreferenceObject(attributes, exceptions, denyAttributes, allowedPurposes, prohibitedPurposes, denyPurposes, timeofRetention) ==
    << <<"attributes", attributes>>,
       <<"exceptions", exceptions>>,
       <<"denyAttributes", denyAttributes>>,
       <<"allowedPurposes", allowedPurposes>>,
       <<"prohibitedPurposes", prohibitedPurposes>>,
       <<"denyPurposes", denyPurposes>>,
       <<"timeofRetention", timeofRetention>> >>

UserObject(privacyPreference) == << <<"privacyPreference", privacyPreference>> >>

\* inputs that vary the attribute lists, with purposes and retention each
\* once accepted and once rejected
AttrInputs ==
    { << AppObjectWithRetention(a, <<"purp3">>, r),
         PreferenceObject(al, ex, de, <<"purp3">>, <<>>, dp, 1) >> :
        a  \in IdLists(AttrOrder, MaxList), al \in IdLists(AttrOrder, MaxList),
        ex \in NegLists(AttrOrder),         de \in NegLists(AttrOrder),
        dp \in {<<>>, <<"purp3">>},         r  \in {1, 2} }

\* inputs that vary the purpose lists
PurpInputs ==
    { << AppObjectWithRetention(<<"attr2">>, p, r),
         PreferenceObject(<<"attr1">>, <<>>, de, pl, ex, dp, 1) >> :
        p  \in IdLists(PurpOrder, MaxList), pl \in IdLists(PurpOrder, MaxList),
        ex \in NegLists(PurpOrder),         dp \in NegLists(PurpOrder),
        de \in {<<>>, <<"attr1">>},         r  \in {1, 2} }

\* inputs that vary the two retention times, the app's possibly undefined
TimeInputs ==
    { << app, PreferenceObject(<<"attr1">>, <<>>, de, <<"purp3">>, <<>>, dp, t) >> :
        app \in {AppObject(<<"attr2">>, <<"purp3">>)} \cup
                { AppObjectWithRetention(<<"attr2">>, <<"purp3">>, r) : r \in 0..MaxRet },
        t   \in 0..MaxRet,
        de  \in {<<>>, <<"attr1">>},
        dp  \in {<<>>, <<"purp3">>} }

\* inputs that reference ids the policy document does not hold
UnknownIdInputs ==
    { << AppObjectWithRetention(a, <<"purp3">>, 1),
         PreferenceObject(al, <<>>, de, pl, <<>>, <<>>, 1) >> :
        a  \in {<<"attr2">>, <<"attr9">>, <<"attr2", "attr9">>},
        al \in {<<"attr1">>, <<"attr9">>, <<"attr1", "attr9">>},
        de \in {<<>>, <<"attr9">>},
        pl \in {<<"purp3">>, <<"purp3", "purp9">>} }

EvalInputs == AttrInputs \cup PurpInputs \cup TimeInputs \cup UnknownIdInputs

NoOut == [fn |-> "none", result |-> "none", attrsAccepted |-> FALSE,
          purposesAccepted |-> FALSE, timeAccepted |-> FALSE,
          matched |-> FALSE, threw |-> FALSE]

AppIds  == {"app1"}
UserIds == {"user1", "user2"}

\* The last response.  result, cacheHit and at (timestamp) are the body of an
\* evaluation response, userId the _id of a user response.  The rest are
\* ghost fields: appId and userId of an evaluation are the request's
\* arguments, deleted is what a preference update removed from the cache,
\* stale says that the entry a hit returned outlived a preference update of
\* its user, wouldHaveHit that the request directly follows a preference
\* update of its user which removed a fresh entry for the same hash,
\* afterClear the same for a clearing of the cache, fault names the call to
\* the evaluateHash collection that failed.  deleted of a clearing is what
\* deletedCount counts.
NoRes == [op |-> "none", status |-> 0, result |-> "none", cacheHit |-> FALSE,
          at |-> 0, appId |-> "", userId |-> "", deleted |-> {},
          stale |-> FALSE, wouldHaveHit |-> FALSE, afterClear |-> FALSE,
          fault |-> "none"]

\* the collections are empty when the server starts
ApiInit ==
    /\ apps = [a \in AppIds |-> <<>>]
    /\ appBody = [a \in AppIds |-> <<>>]
    /\ users = [u \in UserIds |-> <<>>]
    /\ cache = <<>>
    /\ now = 0
    /\ res = NoRes
    /\ inflight = <<>>

\* nothing handed to the key functions
EdgeNodeIds == {"edge-0", "edge-1"}

\* what a request through the hierarchy returned.  result and timestamp are
\* fields of the cloud's response; the rest are ghost fields: fn names the
\* entry point, status says whether it returned or threw, cloudCalled whether
\* POST /api/evaluate was called, pref is the preference the returned
\* decision was computed from.
NoFogRes == [fn |-> "none", status |-> "none", appId |-> "", userId |-> "", edgeNodeId |-> "",
             edgeCacheHit |-> FALSE, cloudCalled |-> FALSE, result |-> "",
             timestamp |-> 0, pref |-> <<>>]

\* the parts of the model a specification does not exercise stay as they are
PolicyIdle == policy = <<>> /\ policyOut = <<>>

FogIdle == localCache = [e \in EdgeNodeIds |-> <<>>] /\ fogRes = NoFogRes

DeviceIdle == device = <<>> /\ devRes = "none"

\* the monitored function's promise: its state and, while it runs the
\* throughput workload, the number of requests it has completed
NoFn == [state |-> "idle", requests |-> 0]

MonitorIdle ==
    /\ monitoring = FALSE
    /\ samples = 0
    /\ monPc = "idle"
    /\ taskPc = "idle"
    /\ fn = NoFn

SimIdle == PolicyIdle /\ FogIdle /\ DeviceIdle /\ MonitorIdle

NoKeys ==
    /\ keyIn = <<>>
    /\ keyOut = <<>>

EvalInit ==
    /\ ApiInit
    /\ \E in \in EvalInputs : evApp = in[1] /\ evPref = in[2]
    /\ evOut = NoOut
    /\ NoKeys
    /\ SimIdle

\* measureCacheMiss / evaluateNoCache: the full evaluation, mapped to grant/deny
MeasureCacheMiss ==
    /\ evOut.fn = "none"
    /\ LET isAccepted == evaluate(evApp, UserObject(evPref))
       IN  evOut' = [NoOut EXCEPT !.fn = "evaluate",
                                  !.result = IF isAccepted THEN "grant" ELSE "deny"]
    /\ UNCHANGED <<evApp, evPref, keyIn, keyOut>>
    /\ UNCHANGED apiVars
    /\ UNCHANGED fogVars
    /\ UNCHANGED simVars

\* benchmarkFlatHierarchy: one evaluateFlatHierarchy(app, user)
BenchmarkFlatHierarchy ==
    /\ evOut.fn = "none"
    /\ LET r == evaluateFlatHierarchy(evApp, UserObject(evPref))
       IN  evOut' = [NoOut EXCEPT !.fn = "flat",
                                  !.result = r.result,
                                  !.attrsAccepted = r.attrsAccepted,
                                  !.purposesAccepted = r.purposesAccepted,
                                  !.timeAccepted = r.timeAccepted]
    /\ UNCHANGED <<evApp, evPref, keyIn, keyOut>>
    /\ UNCHANGED apiVars
    /\ UNCHANGED fogVars
    /\ UNCHANGED simVars

\* measureNestedSetQuery(app.attributes, user.privacyPreference.attributes):
\* the query for the app's first attribute; appAttributes[0].id throws a
\* TypeError when the app has no attribute
MeasureNestedSetQuery ==
    /\ evOut.fn = "none"
    /\ LET appAttributes == Get(evApp, "attributes")
           uppAttributes == Get(evPref, "attributes")
       IN  IF Len(appAttributes) = 0
           THEN evOut' = [NoOut EXCEPT !.fn = "nestedSetQuery", !.threw = TRUE]
           ELSE evOut' = [NoOut EXCEPT !.fn = "nestedSetQuery",
                              !.matched = NestedSetMatch(PolicyAttributes,
                                              uppAttributes, appAttributes[1])]
    /\ UNCHANGED <<evApp, evPref, keyIn, keyOut>>
    /\ UNCHANGED apiVars
    /\ UNCHANGED fogVars
    /\ UNCHANGED simVars

EvalNext ==
    \/ MeasureCacheMiss
    \/ BenchmarkFlatHierarchy
    \/ MeasureNestedSetQuery

EvalSpec == EvalInit /\ [][EvalNext]_vars

(***************************************************************************)
(* Hash utilities                                                          *)
(***************************************************************************)
\* JSON.stringify: the object's own keys with their values, in key order
JSONstringify(obj) == <<"json", obj>>

\* SHA-256, taken to be collision-free: the digest stands for its input
sha256(data) == <<"sha256", data>>

computeCacheKey_AppOnly(app, userPreference) ==
    sha256(<< sha256(JSONstringify(app)), "-" >>)

computeCacheKey_Salted(app, userPreference) ==
    sha256(<< sha256(JSONstringify(app)), "-",
              sha256(JSONstringify(userPreference)), now >>)

computeCacheKey(app, userPreference) ==
    sha256(<< sha256(JSONstringify(app)), "-",
              sha256(JSONstringify(userPreference)) >>)

(***************************************************************************)
(* Mongoose models                                                         *)
(***************************************************************************)
\* strict schemas: a key of the input that is no path of the schema is dropped
PickPaths(obj, paths) == SelectSeq(obj, LAMBDA kv : kv[1] \in paths)

\* an array path that the input leaves out defaults to the empty array
RECURSIVE DefaultArrays(_, _)
DefaultArrays(obj, paths) ==
    IF paths = <<>> THEN obj
    ELSE DefaultArrays(IF Has(obj, Head(paths)) THEN obj
                       ELSE Append(obj, <<Head(paths), <<>> >>),
                       Tail(paths))

\* app schema: name, attributes, purposes
AppSchema(body) ==
    DefaultArrays(PickPaths(body, {"name", "attributes", "purposes"}),
                  <<"attributes", "purposes">>)

\* privacyPreference of the user schema
PreferenceSchema(body) ==
    DefaultArrays(PickPaths(body, {"attributes", "exceptions", "denyAttributes",
                                   "allowedPurposes", "prohibitedPurposes",
                                   "denyPurposes", "timeofRetention"}),
                  <<"attributes", "exceptions", "denyAttributes",
                    "allowedPurposes", "prohibitedPurposes", "denyPurposes">>)

\* the stored documents; _id stands for what mongoose adds on creation
AppDocument(id, body) == << <<"_id", id>> >> \o AppSchema(body)

UserDocument(id, privacyPreference) ==
    << <<"_id", id>>, <<"privacyPreference", PreferenceSchema(privacyPreference)>> >>

\* Models.X.findById: the document, or null (the empty object here)
Exists(doc) == doc # <<>>

FreeIds(coll) == {id \in DOMAIN coll : ~Exists(coll[id])}

\* the id MongoDB gives the next document of the collection
NextId(coll) ==
    CHOOSE id \in FreeIds(coll) :
        \A other \in FreeIds(coll) : other = id \/ id \in {"app1", "user1"}

(***************************************************************************)
(* The evaluateHash collection                                             *)
(***************************************************************************)
Fresh_WrongUnit(entry, retention) == entry.createdAt >= now

Fresh_Strict(entry, retention) == entry.createdAt > now - retention

\* createdAt: { $gte: moment().utc().subtract(Number(timeofRetention), "second") }
Fresh(entry, retention) == entry.createdAt >= now - retention

Matching_AnyHash(userId, hash, retention) ==
    { i \in DOMAIN cache :
        /\ cache[i].userId = userId
        /\ Fresh(cache[i], retention) }

Matching_AnyUser(userId, hash, retention) ==
    { i \in DOMAIN cache :
        /\ cache[i].hash = hash
        /\ Fresh(cache[i], retention) }

Matching(userId, hash, retention) ==
    { i \in DOMAIN cache :
        /\ cache[i].userId = userId
        /\ cache[i].hash = hash
        /\ Fresh(cache[i], retention) }

\* Models.EvaluateHash.findOne({userId, hash, createdAt: {$gte: ...}}): the
\* index of the first matching document, 0 for null
findOne(userId, hash, retention) ==
    IF Matching(userId, hash, retention) = {} THEN 0
    ELSE CHOOSE i \in Matching(userId, hash, retention) :
            \A j \in Matching(userId, hash, retention) : i <= j

create_Upsert(userId, hash, result, app, pref) ==
    Append(SelectSeq(cache, LAMBDA e : ~(e.userId = userId /\ e.hash = hash)),
           [userId |-> userId, hash |-> hash, result |-> result,
            createdAt |-> now, preChange |-> FALSE,
            app |-> app, pref |-> pref])

create_NoTimestamp(userId, hash, result, app, pref) ==
    Append(cache, [userId |-> userId, hash |-> hash, result |-> result,
                   createdAt |-> 0, preChange |-> FALSE,
                   app |-> app, pref |-> pref])

create_Unique(userId, hash, result, app, pref) ==
    IF \E e \in Range(cache) : e.userId = userId /\ e.hash = hash
    THEN cache
    ELSE Append(cache, [userId |-> userId, hash |-> hash, result |-> result,
                        createdAt |-> now, preChange |-> FALSE,
                        app |-> app, pref |-> pref])

create_AlwaysGrant(userId, hash, result, app, pref) ==
    Append(cache, [userId |-> userId, hash |-> hash, result |-> "grant",
                   createdAt |-> now, preChange |-> FALSE,
                   app |-> app, pref |-> pref])

\* Models.EvaluateHash.create({userId, hash, result}); timestamps: true sets
\* createdAt.  app and pref are ghost fields: what the hash was computed from.
create(userId, hash, result, app, pref) ==
    Append(cache, [userId |-> userId, hash |-> hash, result |-> result,
                   createdAt |-> now, preChange |-> FALSE,
                   app |-> app, pref |-> pref])

deleteMany_Everyone(userId) == <<>>

deleteMany_None(userId) == cache

\* Models.EvaluateHash.deleteMany({userId})
deleteMany(userId) == SelectSeq(cache, LAMBDA e : e.userId # userId)

deleteAll_Expired ==
    SelectSeq(cache, LAMBDA e : Fresh(e, Get(e.pref, "timeofRetention")))

\* Models.EvaluateHash.deleteMany({})
deleteAll == <<>>

\* ghost: what is left of a user's entries after the user's preference update
\* has run was created before the change
MarkPreChange(entries, userId) ==
    [i \in DOMAIN entries |->
        IF entries[i].userId = userId
        THEN [entries[i] EXCEPT !.preChange = TRUE]
        ELSE entries[i]]

(***************************************************************************)
(* Request bodies                                                          *)
(***************************************************************************)
GpsApp == AppObjectWithRetention(<<"attr2">>, <<"purp3">>, 1)

\* a body without purposes is rejected
AppBodies == { GpsApp,
               << <<"name", "App">>, <<"attributes", <<"attr2">> >> >> }

AllowLocation ==
    PreferenceObject(<<"attr1">>, <<>>, <<>>, <<"purp3">>, <<>>, <<>>, 1)
AllowLocationNoRetention ==
    PreferenceObject(<<"attr1">>, <<>>, <<>>, <<"purp3">>, <<>>, <<>>, 0)

Preferences == {AllowLocation, AllowLocationNoRetention}

\* a body without privacyPreference is rejected
UserBodies == { << <<"fullName", "U">>, <<"privacyPreference", p>> >> : p \in Preferences }
              \cup { << <<"fullName", "U">> >> }

PreferenceBodies == { << <<"privacyPreference", p>> >> : p \in Preferences }
                    \cup { <<>> }

Respond_AlwaysRejected(op, status) == [NoRes EXCEPT !.op = op, !.status = 400]

\* res.status(status).json(...) of the handler op
Respond(op, status) == [NoRes EXCEPT !.op = op, !.status = status]

(***************************************************************************)
(* The REST API                                                            *)
(***************************************************************************)
\* POST /api/apps
CreateApp(body) ==
    /\ IF ~Has(body, "name") \/ ~Has(body, "attributes") \/ ~Has(body, "purposes")
       THEN /\ res' = Respond("createApp", 400)
            /\ UNCHANGED <<apps, appBody>>
       ELSE /\ FreeIds(apps) # {}
            /\ LET id == NextId(apps)
               IN  /\ apps' = [apps EXCEPT ![id] = AppDocument(id, body)]
                   /\ appBody' = [appBody EXCEPT ![id] = body]
                   /\ res' = [Respond("createApp", 201) EXCEPT !.appId = id]
    /\ UNCHANGED <<users, cache, now>>
    /\ UNCHANGED inflight
    /\ UNCHANGED evalVars
    /\ UNCHANGED fogVars
    /\ UNCHANGED simVars

\* POST /api/users
CreateUser(body) ==
    /\ IF ~Has(body, "privacyPreference")
       THEN /\ res' = Respond("createUser", 400)
            /\ UNCHANGED users
       ELSE /\ FreeIds(users) # {}
            /\ LET id == NextId(users)
               IN  /\ users' = [users EXCEPT ![id] =
                                   UserDocument(id, Get(body, "privacyPreference"))]
                   /\ res' = [Respond("createUser", 201) EXCEPT !.userId = id]
    /\ UNCHANGED <<apps, appBody, cache, now>>
    /\ UNCHANGED inflight
    /\ UNCHANGED evalVars
    /\ UNCHANGED fogVars
    /\ UNCHANGED simVars

\* PUT /api/users/:userId/preferences
UpdatePreferences(userId, body) ==
    /\ IF ~Has(body, "privacyPreference")
       THEN /\ res' = Respond("updatePreferences", 400)
            /\ UNCHANGED <<users, cache>>
       ELSE IF ~Exists(users[userId])
       THEN /\ res' = Respond("updatePreferences", 404)
            /\ UNCHANGED <<users, cache>>
       ELSE /\ users' = [users EXCEPT ![userId] =
                            UserDocument(userId, Get(body, "privacyPreference"))]
            /\ cache' = MarkPreChange(deleteMany(userId), userId)
            /\ res' = [Respond("updatePreferences", 200) EXCEPT
                          !.userId = userId,
                          !.deleted = {e \in Range(cache) : e.userId = userId}]
    /\ UNCHANGED <<apps, appBody, now>>
    /\ UNCHANGED inflight
    /\ UNCHANGED evalVars
    /\ UNCHANGED fogVars
    /\ UNCHANGED simVars

\* POST /api/evaluate: the handler over the collections
PostEvaluate(appId, userId) ==
    /\ IF appId = "" \/ userId = ""
       THEN /\ res' = Respond("evaluate", 400)
            /\ UNCHANGED cache
       ELSE IF ~Exists(apps[appId]) \/ ~Exists(users[userId])
       THEN /\ res' = Respond("evaluate", 404)
            /\ UNCHANGED cache
       ELSE LET app  == apps[appId]
                user == users[userId]
                pref == Get(user, "privacyPreference")
                retention == Get(pref, "timeofRetention")
                hashValue == computeCacheKey(app, pref)
                cachedResult == findOne(userId, hashValue, retention)
                ok == [Respond("evaluate", 200) EXCEPT
                          !.at = now, !.appId = appId, !.userId = userId,
                          !.wouldHaveHit =
                              /\ res.op = "updatePreferences"
                              /\ res.status = 200
                              /\ res.userId = userId
                              /\ \E e \in res.deleted :
                                    e.hash = hashValue /\ Fresh(e, retention),
                          !.afterClear =
                              /\ res.op = "clearCache"
                              /\ \E e \in res.deleted :
                                    /\ e.userId = userId /\ e.hash = hashValue
                                    /\ Fresh(e, retention)]
            IN  IF cachedResult # 0
                THEN /\ res' = [ok EXCEPT !.result = cache[cachedResult].result,
                                          !.cacheHit = TRUE,
                                          !.stale = cache[cachedResult].preChange]
                     /\ UNCHANGED cache
                ELSE LET result == IF evaluate(app, user) THEN "grant" ELSE "deny"
                     IN  /\ Len(cache) < MaxCache
                         /\ cache' = create(userId, hashValue, result, app, pref)
                         /\ res' = [ok EXCEPT !.result = result,
                                              !.cacheHit = FALSE]
    /\ UNCHANGED <<apps, appBody, users, now>>
    /\ UNCHANGED inflight
    /\ UNCHANGED evalVars
    /\ UNCHANGED simVars

\* POST /api/evaluate, called by a client of the API
Evaluate(appId, userId) ==
    /\ PostEvaluate(appId, userId)
    /\ UNCHANGED fogVars

EvaluationFailed_Grant ==
    [Respond("evaluate", 200) EXCEPT !.result = "grant"]

\* catch (error): res.status(500).json({error: "Evaluation failed", message})
EvaluationFailed == Respond("evaluate", 500)

\* POST /api/evaluate when a call to the evaluateHash collection rejects:
\* findOne, or create after a miss.  The handler's catch answers; nothing
\* is written.
EvaluateCacheUnavailable(appId, userId, failing) ==
    /\ Exists(apps[appId]) /\ Exists(users[userId])
    /\ LET pref == Get(users[userId], "privacyPreference")
           hashValue == computeCacheKey(apps[appId], pref)
       IN  failing = "create" =>
               findOne(userId, hashValue, Get(pref, "timeofRetention")) = 0
    /\ res' = [EvaluationFailed EXCEPT !.fault = failing,
                                       !.appId = appId, !.userId = userId]
    /\ UNCHANGED <<apps, appBody, users, cache, now>>
    /\ UNCHANGED inflight
    /\ UNCHANGED evalVars
    /\ UNCHANGED fogVars
    /\ UNCHANGED simVars

\* DELETE /api/cache
ClearCache ==
    /\ cache' = deleteAll
    /\ res' = [Respond("clearCache", 200) EXCEPT !.deleted = Range(cache)]
    /\ UNCHANGED <<apps, appBody, users, now>>
    /\ UNCHANGED inflight
    /\ UNCHANGED evalVars
    /\ UNCHANGED fogVars
    /\ UNCHANGED simVars

\* a second passes
Tick ==
    /\ now < MaxTime
    /\ now' = now + 1
    /\ UNCHANGED <<apps, appBody, users, cache, res>>
    /\ UNCHANGED inflight
    /\ UNCHANGED evalVars
    /\ UNCHANGED fogVars
    /\ UNCHANGED simVars

Init ==
    /\ ApiInit
    /\ evApp = <<>>
    /\ evPref = <<>>
    /\ evOut = NoOut
    /\ NoKeys
    /\ SimIdle

Next ==
    \/ \E body \in AppBodies : CreateApp(body)
    \/ \E body \in UserBodies : CreateUser(body)
    \/ \E userId \in UserIds, body \in PreferenceBodies : UpdatePreferences(userId, body)
    \/ \E appId \in AppIds \cup {""}, userId \in UserIds \cup {""} : Evaluate(appId, userId)
    \/ \E appId \in AppIds, userId \in UserIds, failing \in {"findOne", "create"} :
          EvaluateCacheUnavailable(appId, userId, failing)
    \/ ClearCache
    \/ Tick

Spec == Init /\ [][Next]_vars

(***************************************************************************)
(* Concurrent requests: POST /api/evaluate interleaves at its awaits        *)
(***************************************************************************)
\* POST /api/evaluate up to the answer of findOne: a hit responds, a miss
\* goes on with the documents it has loaded and the key it has computed
EvaluateLookup(appId, userId) ==
    /\ IF appId = "" \/ userId = ""
       THEN /\ res' = Respond("evaluate", 400)
            /\ UNCHANGED inflight
       ELSE IF ~Exists(apps[appId]) \/ ~Exists(users[userId])
       THEN /\ res' = Respond("evaluate", 404)
            /\ UNCHANGED inflight
       ELSE LET app  == apps[appId]
                user == users[userId]
                pref == Get(user, "privacyPreference")
                hashValue == computeCacheKey(app, pref)
                cachedResult == findOne(userId, hashValue, Get(pref, "timeofRetention"))
            IN  IF cachedResult # 0
                THEN /\ res' = [Respond("evaluate", 200) EXCEPT
                                   !.result = cache[cachedResult].result,
                                   !.cacheHit = TRUE,
                                   !.at = now, !.appId = appId, !.userId = userId,
                                   !.stale = cache[cachedResult].preChange]
                     /\ UNCHANGED inflight
                ELSE /\ Len(inflight) < MaxInflight
                     /\ inflight' = Append(inflight,
                            [appId |-> appId, userId |-> userId, app |-> app,
                             user |-> user, hashValue |-> hashValue])
                     /\ UNCHANGED res
    /\ UNCHANGED <<apps, appBody, users, cache, now>>
    /\ UNCHANGED evalVars
    /\ UNCHANGED fogVars
    /\ UNCHANGED simVars

\* POST /api/evaluate from the miss on: evaluate, create, respond
EvaluateStore(i) ==
    /\ i \in DOMAIN inflight
    /\ Len(cache) < MaxCache
    /\ LET req == inflight[i]
           result == IF evaluate(req.app, req.user) THEN "grant" ELSE "deny"
       IN  /\ cache' = create(req.userId, req.hashValue, result, req.app,
                              Get(req.user, "privacyPreference"))
           /\ res' = [Respond("evaluate", 200) EXCEPT
                         !.result = result, !.cacheHit = FALSE,
                         !.at = now, !.appId = req.appId, !.userId = req.userId]
    /\ inflight' = [j \in 1 .. Len(inflight) - 1 |->
                       IF j < i THEN inflight[j] ELSE inflight[j + 1]]
    /\ UNCHANGED <<apps, appBody, users, now>>
    /\ UNCHANGED evalVars
    /\ UNCHANGED fogVars
    /\ UNCHANGED simVars

\* one app and two users with equal preferences have been created
ConcurrentInit ==
    /\ apps = [a \in AppIds |->
                  IF a = "app1" THEN AppDocument("app1", GpsApp) ELSE <<>>]
    /\ appBody = [a \in AppIds |-> IF a = "app1" THEN GpsApp ELSE <<>>]
    /\ users = [u \in UserIds |-> UserDocument(u, AllowLocation)]
    /\ cache = <<>>
    /\ now = 0
    /\ res = NoRes
    /\ inflight = <<>>
    /\ evApp = <<>>
    /\ evPref = <<>>
    /\ evOut = NoOut
    /\ NoKeys
    /\ SimIdle

ConcurrentNext ==
    \/ \E appId \in AppIds, userId \in UserIds : EvaluateLookup(appId, userId)
    \/ \E i \in 1 .. MaxInflight : EvaluateStore(i)
    \/ \E body \in PreferenceBodies \ {<<>>} : UpdatePreferences("user1", body)
    \/ Tick

ConcurrentSpec == ConcurrentInit /\ [][ConcurrentNext]_vars

(***************************************************************************)
(* Keys computed on plain records: the hash verification script and the    *)
(* man-in-the-middle simulation                                            *)
(***************************************************************************)
\* md5 of the md5 package, taken to be collision-free like sha256
md5(data) == <<"md5", data>>

\* bits of a digest
Md5Bits == 128
Sha256Bits == 256
DigestBits(digest) == IF digest[1] = "md5" THEN Md5Bits ELSE Sha256Bits

\* obj.key = value: an own key keeps its place, a new key goes last
SetField(obj, key, value) ==
    IF Has(obj, key)
    THEN [i \in DOMAIN obj |-> IF obj[i][1] = key THEN <<key, value>> ELSE obj[i]]
    ELSE Append(obj, <<key, value>>)

\* the same fields written in the opposite order
Reverse(obj) == [i \in DOMAIN obj |-> obj[Len(obj) + 1 - i]]

\* testApp: an app record with _id and timeofRetention
TestApps ==
    { << <<"_id", "app1">> >> \o AppObjectWithRetention(attributes, <<"purp3">>, ret) :
        attributes \in {<<"attr2">>, <<"attr2", "attr5">>}, ret \in 0 .. MaxRet }

\* a second app record: the same, the same in another field order, or one
\* with a field modified
OtherApps(app) ==
    { app, Reverse(app),
      SetField(app, "name", "Modified App"),
      SetField(app, "attributes", <<>>),
      SetField(app, "purposes", <<>>),
      SetField(app, "timeofRetention", 0) }

OtherPreferences(pref) ==
    { pref, Reverse(pref),
      SetField(pref, "timeofRetention", 0),
      SetField(pref, "attributes", <<"attr1", "attr4">>) }

NoKeyOut == [verified |-> FALSE, cacheKey |-> <<>>, differentKey |-> <<>>,
             simulated |-> FALSE, legitimateHash |-> <<>>, tamperedHash |-> <<>>]

HashInit ==
    /\ ApiInit
    /\ evApp = <<>>
    /\ evPref = <<>>
    /\ evOut = NoOut
    /\ \E app \in TestApps, pref \in Preferences :
          \E otherApp \in OtherApps(app), otherPref \in OtherPreferences(pref) :
              keyIn = [app |-> app, pref |-> pref,
                       otherApp |-> otherApp, otherPref |-> otherPref]
    /\ keyOut = NoKeyOut
    /\ SimIdle

\* verification script: the cache key of the record pair and of the other pair
VerifyCacheKey ==
    /\ ~keyOut.verified
    /\ keyOut' = [keyOut EXCEPT
                     !.verified = TRUE,
                     !.cacheKey = computeCacheKey(keyIn.app, keyIn.pref),
                     !.differentKey = computeCacheKey(keyIn.otherApp, keyIn.otherPref)]
    /\ UNCHANGED <<evApp, evPref, evOut, keyIn>>
    /\ UNCHANGED apiVars
    /\ UNCHANGED fogVars
    /\ UNCHANGED simVars

\* testRequestTampering / testReplayAttack: the hash of the legitimate pair
\* and of the modified pair
TestRequestTampering ==
    /\ ~keyOut.simulated
    /\ keyOut' = [keyOut EXCEPT
                     !.simulated = TRUE,
                     !.legitimateHash =
                         md5(<< md5(JSONstringify(keyIn.app)), "-",
                                md5(JSONstringify(keyIn.pref)) >>),
                     !.tamperedHash =
                         md5(<< md5(JSONstringify(keyIn.otherApp)), "-",
                                md5(JSONstringify(keyIn.otherPref)) >>)]
    /\ UNCHANGED <<evApp, evPref, evOut, keyIn>>
    /\ UNCHANGED apiVars
    /\ UNCHANGED fogVars
    /\ UNCHANGED simVars

HashNext ==
    \/ VerifyCacheKey
    \/ TestRequestTampering

HashSpec == HashInit /\ [][HashNext]_vars

(***************************************************************************)
(* Cache poisoning: the simulation injects an entry next to the API's      *)
(***************************************************************************)
\* testCachePoisoning: create({userId, hash: md5('MALICIOUS_PAYLOAD_' +
\* Date.now()), result: 'grant'}).  Date.now() differs from call to call, so
\* no entry with that hash exists.  The ghost fields hold what was hashed.
InjectMaliciousEntry(userId) ==
    /\ Exists(users[userId])
    /\ Len(cache) < MaxCache
    /\ LET maliciousHash == md5(<<"MALICIOUS_PAYLOAD_", now>>)
       IN  /\ \A e \in Range(cache) : e.hash # maliciousHash
           /\ cache' = Append(cache,
                  [userId |-> userId, hash |-> maliciousHash, result |-> "grant",
                   createdAt |-> now, preChange |-> FALSE,
                   app |-> << <<"payload", "MALICIOUS_PAYLOAD_">> >>,
                   pref |-> << <<"now", now>> >>])
    /\ UNCHANGED <<apps, appBody, users, now, res>>
    /\ UNCHANGED inflight
    /\ UNCHANGED evalVars
    /\ UNCHANGED fogVars
    /\ UNCHANGED simVars

PoisonNext ==
    \/ \E userId \in UserIds : InjectMaliciousEntry(userId)
    \/ \E appId \in AppIds, userId \in UserIds : Evaluate(appId, userId)
    \/ Tick

\* starts with one app and two users of equal preferences, whose keys are equal
PoisonSpec == ConcurrentInit /\ [][PoisonNext]_vars

(***************************************************************************)
(* Bootstrap of the privacyPolicy collection                               *)
(***************************************************************************)
\* the document ensurePrivacyPolicy inserts
BenchmarkPolicy ==
    [attributes |->
        << [name |-> "General", left |-> 1, right |-> 31],
           [name |-> "Identifier", left |-> 2, right |-> 7],
           [name |-> "UserId", left |-> 3, right |-> 4],
           [name |-> "Name", left |-> 5, right |-> 6],
           [name |-> "Generic", left |-> 7, right |-> 16],
           [name |-> "Fitness", left |-> 8, right |-> 15],
           [name |-> "Moverment", left |-> 9, right |-> 10],
           [name |-> "Height", left |-> 11, right |-> 12],
           [name |-> "Weight", left |-> 13, right |-> 14],
           [name |-> "Sensitive", left |-> 17, right |-> 30],
           [name |-> "Position", left |-> 18, right |-> 19],
           [name |-> "Health", left |-> 20, right |-> 29],
           [name |-> "Physical state", left |-> 21, right |-> 26],
           [name |-> "Heart rate", left |-> 22, right |-> 23],
           [name |-> "Blood pressure", left |-> 24, right |-> 25],
           [name |-> "Psychological state", left |-> 27, right |-> 28] >>,
     purposes |->
        << [name |-> "General", left |-> 1, right |-> 32],
           [name |-> "Admin", left |-> 2, right |-> 7],
           [name |-> "Profilling", left |-> 3, right |-> 4],
           [name |-> "Analysis", left |-> 5, right |-> 6],
           [name |-> "Purchase", left |-> 8, right |-> 9],
           [name |-> "Shipping", left |-> 10, right |-> 11],
           [name |-> "Maketing", left |-> 12, right |-> 31],
           [name |-> "Direct", left |-> 13, right |-> 24],
           [name |-> "DPhone", left |-> 14, right |-> 15],
           [name |-> "DEmail", left |-> 16, right |-> 21],
           [name |-> "Service updates", left |-> 17, right |-> 18],
           [name |-> "Special offers", left |-> 19, right |-> 20],
           [name |-> "DFax", left |-> 22, right |-> 23],
           [name |-> "Third-party", left |-> 24, right |-> 30],
           [name |-> "TEMail", left |-> 26, right |-> 27],
           [name |-> "TPostal", left |-> 28, right |-> 29] >>]

\* the document the quick workflow test inserts
WorkflowPolicy ==
    [attributes |->
        << [name |-> "General", left |-> 1, right |-> 31],
           [name |-> "Identifier", left |-> 2, right |-> 7],
           [name |-> "UserId", left |-> 3, right |-> 4],
           [name |-> "Name", left |-> 5, right |-> 6],
           [name |-> "Generic", left |-> 7, right |-> 16],
           [name |-> "Fitness", left |-> 8, right |-> 15],
           [name |-> "Movement", left |-> 9, right |-> 10],
           [name |-> "Height", left |-> 11, right |-> 12] >>,
     purposes |->
        << [name |-> "General", left |-> 1, right |-> 32],
           [name |-> "Admin", left |-> 2, right |-> 7],
           [name |-> "Marketing", left |-> 12, right |-> 31] >>]

\* the document generateTestData creates: the trees of PolicyAttributes and
\* PolicyPurposes, in array order
TreeArray(tree, order) ==
    [i \in DOMAIN order |->
        [name |-> tree[order[i]].name, left |-> tree[order[i]].left,
         right |-> tree[order[i]].right]]

TestDataPolicy ==
    [attributes |-> TreeArray(PolicyAttributes, AttrOrder),
     purposes |-> TreeArray(PolicyPurposes, PurpOrder)]

\* run-all-benchmarks.js: if (hasData) return; insertMany([...])
EnsurePrivacyPolicy ==
    /\ policy = <<>>
    /\ policy' = <<BenchmarkPolicy>>
    /\ UNCHANGED policyOut
    /\ UNCHANGED <<device, devRes, monitoring, samples, monPc, taskPc, fn>>
    /\ UNCHANGED <<apiVars, evalVars, fogVars>>

\* quick workflow test: if (!hasPolicy) insertMany([...])
QuickWorkflowPolicy ==
    /\ policy = <<>>
    /\ policy' = <<WorkflowPolicy>>
    /\ UNCHANGED policyOut
    /\ UNCHANGED <<device, devRes, monitoring, samples, monPc, taskPc, fn>>
    /\ UNCHANGED <<apiVars, evalVars, fogVars>>

\* quick-test-data.js: if (!policy) policy = create({...})
GenerateTestData ==
    /\ policy = <<>>
    /\ policy' = <<TestDataPolicy>>
    /\ UNCHANGED policyOut
    /\ UNCHANGED <<device, devRes, monitoring, samples, monPc, taskPc, fn>>
    /\ UNCHANGED <<apiVars, evalVars, fogVars>>

\* the containment query over the installed policy: the element at index
\* appIndex of one array is matched against the element at index userIndex
PolicyQuery(kind, appIndex, userIndex) ==
    /\ policy # <<>>
    /\ appIndex \in DOMAIN policy[1][kind]
    /\ userIndex \in DOMAIN policy[1][kind]
    /\ policyOut' = [kind |-> kind, appIndex |-> appIndex, userIndex |-> userIndex,
                     found |-> IntervalContains(policy[1][kind][userIndex],
                                                policy[1][kind][appIndex])]
    /\ UNCHANGED policy
    /\ UNCHANGED <<device, devRes, monitoring, samples, monPc, taskPc, fn>>
    /\ UNCHANGED <<apiVars, evalVars, fogVars>>

MaxTreeSize == 16

PolicyInit ==
    /\ ApiInit
    /\ evApp = <<>>
    /\ evPref = <<>>
    /\ evOut = NoOut
    /\ NoKeys
    /\ SimIdle

PolicyNext ==
    \/ EnsurePrivacyPolicy
    \/ QuickWorkflowPolicy
    \/ GenerateTestData
    \/ \E kind \in {"attributes", "purposes"}, appIndex, userIndex \in 1 .. MaxTreeSize :
          PolicyQuery(kind, appIndex, userIndex)

PolicySpec == PolicyInit /\ [][PolicyNext]_vars

(***************************************************************************)
(* The fog simulator: IoT device -> edge node -> fog node -> cloud API      *)
(***************************************************************************)
\* `${appId}-${userId}`; ids are ObjectId strings, which hold no dash
EdgeCacheKey(appId, userId) == <<appId, "-", userId>>

EdgeCacheSet_Nothing(map, key, value) == map

\* Map.prototype.set: the value of an existing key is replaced in place, a
\* new key is added at the end
EdgeCacheSet(map, key, value) ==
    IF Has(map, key)
    THEN [i \in DOMAIN map |-> IF map[i][1] = key THEN <<key, value>> ELSE map[i]]
    ELSE Append(map, <<key, value>>)

\* A request that reaches the edge node: a cached response is returned as it
\* is; otherwise the cloud's POST /api/evaluate is called, its response is
\* cached at the edge and returned.  axios rejects on a status other than
\* 2xx, and the rejection leaves the function before localCache.set.
ThroughEdge(fnName, edgeNode, appId, userId) ==
    LET cacheKey == EdgeCacheKey(appId, userId)
        called == [NoFogRes EXCEPT !.fn = fnName, !.appId = appId,
                                   !.userId = userId, !.edgeNodeId = edgeNode]
    IN  IF Has(localCache[edgeNode], cacheKey)
        THEN LET cached == Get(localCache[edgeNode], cacheKey)
             IN  /\ fogRes' = [called EXCEPT !.status = "returned",
                                             !.edgeCacheHit = TRUE,
                                             !.result = cached.result,
                                             !.timestamp = cached.timestamp,
                                             !.pref = cached.pref]
                 /\ UNCHANGED localCache
                 /\ UNCHANGED <<apiVars, evalVars, simVars>>
        ELSE /\ PostEvaluate(appId, userId)
             /\ IF res'.status = 200
                THEN LET data == [result |-> res'.result, cacheHit |-> res'.cacheHit,
                                  timestamp |-> res'.at,
                                  pref |-> Get(users[userId], "privacyPreference")]
                     IN  /\ localCache' = [localCache EXCEPT ![edgeNode] =
                                              EdgeCacheSet(@, cacheKey, data)]
                         /\ fogRes' = [called EXCEPT !.status = "returned",
                                                     !.cloudCalled = TRUE,
                                                     !.result = data.result,
                                                     !.timestamp = data.timestamp,
                                                     !.pref = data.pref]
                ELSE /\ fogRes' = [called EXCEPT !.status = "threw",
                                                 !.cloudCalled = TRUE]
                     /\ UNCHANGED localCache

\* FogComputingSimulator.simulateRequest(deviceIndex, appId, userId), for a
\* device connected to edgeNode
SimulateRequest(edgeNode, appId, userId) ==
    /\ edgeNode \in EdgeNodeIds
    /\ ThroughEdge("simulateRequest", edgeNode, appId, userId)

\* EdgeNode.processRequest(appId, userId, deviceId): the fog node forwards to
\* the cloud and hands the cloud's response back
ProcessRequest(edgeNode, appId, userId) ==
    /\ edgeNode \in EdgeNodeIds
    /\ ThroughEdge("processRequest", edgeNode, appId, userId)

\* a request that misses at the edge and whose call to the cloud is rejected
\* by the network
CloudUnreachable(edgeNode, appId, userId) ==
    /\ ~Has(localCache[edgeNode], EdgeCacheKey(appId, userId))
    /\ fogRes' = [NoFogRes EXCEPT !.fn = "simulateRequest", !.appId = appId,
                                  !.userId = userId, !.edgeNodeId = edgeNode,
                                  !.status = "threw", !.cloudCalled = TRUE]
    /\ UNCHANGED localCache
    /\ UNCHANGED <<apiVars, evalVars, simVars>>

\* FogComputingSimulator.clearCaches: every edge node's Map is cleared
ClearCaches ==
    /\ localCache' = [e \in EdgeNodeIds |-> <<>>]
    /\ UNCHANGED fogRes
    /\ UNCHANGED <<apiVars, evalVars, simVars>>

\* the database holds one app and user1; user2 is unknown to the cloud
FogInit ==
    /\ apps = [a \in AppIds |-> AppDocument(a, GpsApp)]
    /\ appBody = [a \in AppIds |-> GpsApp]
    /\ users = [u \in UserIds |->
                   IF u = "user1" THEN UserDocument(u, AllowLocation) ELSE <<>>]
    /\ cache = <<>>
    /\ now = 0
    /\ res = NoRes
    /\ inflight = <<>>
    /\ evApp = <<>>
    /\ evPref = <<>>
    /\ evOut = NoOut
    /\ NoKeys
    /\ SimIdle

FogNext ==
    \/ \E edgeNode \in EdgeNodeIds, appId \in AppIds, userId \in UserIds :
          SimulateRequest(edgeNode, appId, userId)
    \/ \E edgeNode \in EdgeNodeIds, appId \in AppIds, userId \in UserIds :
          ProcessRequest(edgeNode, appId, userId)
    \/ \E edgeNode \in EdgeNodeIds, appId \in AppIds, userId \in UserIds :
          CloudUnreachable(edgeNode, appId, userId)
    \/ ClearCaches
    \/ \E body \in PreferenceBodies \ {<<>>} : UpdatePreferences("user1", body)
    \/ Tick

FogSpec == FogInit /\ [][FogNext]_vars

(***************************************************************************)
(* IoTDevice: one device of the fog simulator                              *)
(***************************************************************************)
\* Memory is counted in thousandths of a MB, the battery level in whole
\* percent (the integer part of batteryLevel).
DeviceTypes == {"sensor", "camera", "wearable", "smart-home"}

\* getHardwareSpec(type).memory.ram
HardwareRam(type) ==
    CASE type = "sensor"     -> 500
      [] type = "camera"     -> 512000
      [] type = "wearable"   -> 256
      [] type = "smart-home" -> 80

\* 20 + Math.random() * 30, in percent
CpuDraws == {20, 49}

\* 0.05 + Math.random() * 0.1, in thousandths of a MB
MemoryDraws == {50, 75, 149}

\* a request drains a fraction of a percent: the integer part of the level
\* stays or falls by one
BatteryDrains == {0, 1}

Min(a, b) == IF a <= b THEN a ELSE b

Max(a, b) == IF a >= b THEN a ELSE b

\* new IoTDevice(deviceId, type)
NewDevice(type) ==
    [type |-> type, ram |-> HardwareRam(type), edgeNodeUrl |-> "null",
     currentCpu |-> 0, currentMemory |-> 0, batteryLevel |-> 100,
     requestCount |-> 0]

\* connectToEdge(edgeNodeUrl)
ConnectToEdge ==
    /\ device.edgeNodeUrl = "null"
    /\ device' = [device EXCEPT !.edgeNodeUrl = "edge-0"]
    /\ UNCHANGED devRes
    /\ UNCHANGED <<policy, policyOut, monitoring, samples, monPc, taskPc, fn>>
    /\ UNCHANGED <<apiVars, evalVars, fogVars>>

\* the resources are released after the edge node has answered
Release(d, answered) ==
    IF answered THEN [d EXCEPT !.currentCpu = 0, !.currentMemory = 0] ELSE d

\* sendRequest(appId, userId).  cpu, memory and drain are what Math.random
\* and the battery arithmetic give; answered says whether the await of the
\* network delay and of axios.post both resolved.  requestCount counts up to
\* MaxRequestCount, which stands for that many requests or more.
SendRequest(cpu, memory, drain, answered) ==
    /\ device # <<>>
    /\ IF device.edgeNodeUrl = "null"
       THEN /\ devRes' = "IoT device not connected to edge node"
            /\ UNCHANGED device
       ELSE IF device.batteryLevel < 5
       THEN /\ devRes' = "Battery critically low"
            /\ UNCHANGED device
       ELSE IF 10 * device.currentMemory > 9 * device.ram
       THEN /\ devRes' = "Memory exhausted"
            /\ UNCHANGED device
       ELSE LET used == [device EXCEPT
                            !.currentCpu = Min(100, cpu),
                            !.currentMemory = Min(device.ram, memory),
                            !.batteryLevel = Max(0, device.batteryLevel - drain),
                            !.requestCount = Min(MaxRequestCount, @ + 1)]
            IN  /\ device' = Release(used, answered)
                /\ devRes' = IF answered THEN "returned" ELSE "request failed"
    /\ UNCHANGED <<policy, policyOut, monitoring, samples, monPc, taskPc, fn>>
    /\ UNCHANGED <<apiVars, evalVars, fogVars>>

\* recharge()
Recharge ==
    /\ device # <<>>
    /\ device.batteryLevel < 100
    /\ device' = [device EXCEPT !.batteryLevel = 100]
    /\ UNCHANGED devRes
    /\ UNCHANGED <<policy, policyOut, monitoring, samples, monPc, taskPc, fn>>
    /\ UNCHANGED <<apiVars, evalVars, fogVars>>

DeviceInit ==
    /\ ApiInit
    /\ evApp = <<>>
    /\ evPref = <<>>
    /\ evOut = NoOut
    /\ NoKeys
    /\ PolicyIdle /\ FogIdle /\ MonitorIdle
    /\ \E type \in DeviceTypes : device = NewDevice(type)
    /\ devRes = "none"

DeviceNext ==
    \/ ConnectToEdge
    \/ \E cpu \in CpuDraws, memory \in MemoryDraws, drain \in BatteryDrains,
          answered \in BOOLEAN :
          SendRequest(cpu, memory, drain, answered)
    \/ Recharge

DeviceSpec == DeviceInit /\ [][DeviceNext]_vars

(***************************************************************************)
(* monitorExecution: a function run under a background sampling loop       *)
(***************************************************************************)
\* monitorExecution(fn, sampleIntervalMs) up to its first await: samples = [],
\* monitoring = true; the sampling task starts, finds monitoring true and
\* awaits getCPUUsage(); fn() is called and awaited
StartMonitoring ==
    /\ monPc = "start"
    /\ samples' = 0
    /\ monitoring' = TRUE
    /\ taskPc' = "getCPUUsage"
    /\ fn' = [state |-> "pending", requests |-> 0]
    /\ monPc' = "await fn"
    /\ UNCHANGED <<policy, policyOut, device, devRes>>
    /\ UNCHANGED <<apiVars, evalVars, fogVars>>

\* the sampling task after getCPUUsage(): samples.push({...}), then the timer.
\* samples counts up to MaxSamples, which stands for that many or more.
TaskSample ==
    /\ taskPc = "getCPUUsage"
    /\ samples' = IF samples < MaxSamples THEN samples + 1 ELSE MaxSamples
    /\ taskPc' = "setTimeout"
    /\ UNCHANGED <<monitoring, monPc, fn>>
    /\ UNCHANGED <<policy, policyOut, device, devRes>>
    /\ UNCHANGED <<apiVars, evalVars, fogVars>>

\* the timer fires: while (monitoring) is tested again
TaskWake ==
    /\ taskPc = "setTimeout"
    /\ taskPc' = IF monitoring THEN "getCPUUsage" ELSE "done"
    /\ UNCHANGED <<monitoring, samples, monPc, fn>>
    /\ UNCHANGED <<policy, policyOut, device, devRes>>
    /\ UNCHANGED <<apiVars, evalVars, fogVars>>

\* the monitored function, measureThroughput, completes one more request
FnStep ==
    /\ fn.state = "pending"
    /\ fn.requests < MaxWork
    /\ fn' = [fn EXCEPT !.requests = @ + 1]
    /\ UNCHANGED <<monitoring, samples, monPc, taskPc>>
    /\ UNCHANGED <<policy, policyOut, device, devRes>>
    /\ UNCHANGED <<apiVars, evalVars, fogVars>>

\* the monitored function resolves, all its requests done
FnResolve ==
    /\ fn.state = "pending"
    /\ fn.requests = MaxWork
    /\ fn' = [fn EXCEPT !.state = "resolved"]
    /\ UNCHANGED <<monitoring, samples, monPc, taskPc>>
    /\ UNCHANGED <<policy, policyOut, device, devRes>>
    /\ UNCHANGED <<apiVars, evalVars, fogVars>>

\* the monitored function rejects
FnReject ==
    /\ fn.state = "pending"
    /\ fn' = [fn EXCEPT !.state = "rejected"]
    /\ UNCHANGED <<monitoring, samples, monPc, taskPc>>
    /\ UNCHANGED <<policy, policyOut, device, devRes>>
    /\ UNCHANGED <<apiVars, evalVars, fogVars>>

\* monitorExecution resumes from await fn(): after a result, monitoring =
\* false and the task is awaited; a rejection is thrown on to the caller from
\* the await, and the lines after it do not run
MonitorResume ==
    /\ monPc = "await fn"
    /\ fn.state \in {"resolved", "rejected"}
    /\ IF fn.state = "resolved"
       THEN monitoring' = FALSE /\ monPc' = "await monitoringTask"
       ELSE monPc' = "threw" /\ UNCHANGED monitoring
    /\ UNCHANGED <<samples, taskPc, fn>>
    /\ UNCHANGED <<policy, policyOut, device, devRes>>
    /\ UNCHANGED <<apiVars, evalVars, fogVars>>

\* monitorExecution resumes from await monitoringTask: statistics, return
MonitorReturn ==
    /\ monPc = "await monitoringTask"
    /\ taskPc = "done"
    /\ monPc' = "returned"
    /\ UNCHANGED <<monitoring, samples, taskPc, fn>>
    /\ UNCHANGED <<policy, policyOut, device, devRes>>
    /\ UNCHANGED <<apiVars, evalVars, fogVars>>

MonitorInit ==
    /\ ApiInit
    /\ evApp = <<>>
    /\ evPref = <<>>
    /\ evOut = NoOut
    /\ NoKeys
    /\ PolicyIdle /\ FogIdle /\ DeviceIdle
    /\ monitoring = FALSE
    /\ samples = 0
    /\ monPc = "start"
    /\ taskPc = "idle"
    /\ fn = NoFn

MonitorNext ==
    \/ StartMonitoring
    \/ TaskSample
    \/ TaskWake
    \/ FnStep
    \/ FnResolve
    \/ FnReject
    \/ MonitorResume
    \/ MonitorReturn

MonitorSpec == MonitorInit /\ [][MonitorNext]_vars

\* the event loop runs every callback that is ready: timers and settled
\* promises are served, and the workload makes progress
MonitorFairSpec ==
    /\ MonitorSpec
    /\ WF_vars(TaskSample) /\ WF_vars(TaskWake)
    /\ WF_vars(FnStep) /\ WF_vars(FnResolve)
    /\ WF_vars(MonitorResume) /\ WF_vars(MonitorReturn)

(***************************************************************************)
(* Properties of the pure functions (checked under EvalSpec)               *)
(***************************************************************************)
\* some id of the list is the id a or an ancestor of it, by the parent fields
Covered(tree, list, a) ==
    /\ a \in DOMAIN tree
    /\ \E i \in DOMAIN list :
          list[i] \in DOMAIN tree /\ ParentChain(tree, list[i], a)

EvAppHasRetention == Has(evApp, "timeofRetention")
EvAppRetention    == Get(evApp, "timeofRetention")
EvPrefRetention   == Get(evPref, "timeofRetention")

SwapNegatives(pref) ==
    PreferenceObject(Get(pref, "attributes"),
                     Get(pref, "denyAttributes"), Get(pref, "exceptions"),
                     Get(pref, "allowedPurposes"),
                     Get(pref, "denyPurposes"), Get(pref, "prohibitedPurposes"),
                     Get(pref, "timeofRetention"))

NegativeCovers(tree, required, exceptedIds, deniedIds) ==
    \E i \in DOMAIN required :
        \/ Covered(tree, exceptedIds, required[i])
        \/ Covered(tree, deniedIds, required[i])

AllAccepted(tree, required, allowedIds, exceptedIds, deniedIds) ==
    \A i \in DOMAIN required :
        /\ Covered(tree, allowedIds, required[i])
        /\ ~Covered(tree, exceptedIds, required[i])
        /\ ~Covered(tree, deniedIds, required[i])

C8_IntervalIsAncestry ==
    /\ \A a, b \in DOMAIN PolicyAttributes :
          IntervalContains(PolicyAttributes[a], PolicyAttributes[b])
              <=> ParentChain(PolicyAttributes, a, b)
    /\ \A a, b \in DOMAIN PolicyPurposes :
          IntervalContains(PolicyPurposes[a], PolicyPurposes[b])
              <=> ParentChain(PolicyPurposes, a, b)
    /\ (evOut.fn = "nestedSetQuery" /\ ~evOut.threw) =>
          ( evOut.matched <=>
            Covered(PolicyAttributes, Get(evPref, "attributes"),
                    Get(evApp, "attributes")[1]) )

\* the query ran for GPS against a user who lists only Contact and Location:
\* Location matches as the ancestor, the unrelated Contact does not
C8_Witness ==
    /\ evOut.fn = "nestedSetQuery"
    /\ ~evOut.threw
    /\ Get(evApp, "attributes")[1] = "attr2"
    /\ Get(evPref, "attributes") = <<"attr1", "attr4">>
    /\ ~IntervalContains(PolicyAttributes["attr4"], PolicyAttributes["attr2"])
    /\ evOut.matched

(***************************************************************************)
(* Properties of the decision cache (checked under Spec)                   *)
(***************************************************************************)
Decision(granted) == IF granted THEN "grant" ELSE "deny"

Answered == res.op = "evaluate" /\ res.status = 200

Stored(appId, userId) == Exists(apps[appId]) /\ Exists(users[userId])

PreferenceOf(userId) == Get(users[userId], "privacyPreference")

\* the entries stored for the pair (user, key of the app and the preference)
EntriesFor(appId, userId) ==
    { e \in Range(cache) :
        /\ e.userId = userId
        /\ e.hash = computeCacheKey(apps[appId], PreferenceOf(userId)) }

\* some entry of the pair is no older than the preference's retention
HasFreshEntry(appId, userId) ==
    \E e \in EntriesFor(appId, userId) :
        now - e.createdAt <= Get(PreferenceOf(userId), "timeofRetention")

C2_NoHitOnPreChangeEntry == Answered /\ res.cacheHit => ~res.stale

\* a miss right after an update that removed a fresh entry for the same key
C2_Witness == Answered /\ res.wouldHaveHit /\ ~res.cacheHit

\* C3: a lookup is a hit exactly when some entry stored for the pair
\* satisfies now - createdAt <= retention, the boundary included; an older
\* entry is a miss although it is still stored.
C3_HitIffFresh ==
    [][\A appId \in AppIds, userId \in UserIds :
        Evaluate(appId, userId) /\ Stored(appId, userId) =>
            (res'.cacheHit <=> HasFreshEntry(appId, userId))
      ]_vars

\* a hit exactly at the boundary, on an entry that was written by a miss
\* while an older entry of the pair was still stored
C3_Witness ==
    /\ Answered /\ res.cacheHit
    /\ Stored(res.appId, res.userId)
    /\ \E old, e \in EntriesFor(res.appId, res.userId) :
          /\ old.createdAt < e.createdAt
          /\ res.at - e.createdAt = Get(PreferenceOf(res.userId), "timeofRetention")

\* C4: a decide that evaluates answers grant exactly when the three checks
\* pass for the app as it was submitted to the app API (its attributes,
\* purposes and timeofRetention) and the user's preference.
C4_GrantIffAllChecks ==
    Answered /\ ~res.cacheHit =>
        (res.result = "grant" <=>
            evaluate(appBody[res.appId], users[res.userId]))

SameFields(a, b) == Range(a) = Range(b)

SamePair == SameFields(keyIn.app, keyIn.otherApp) /\ SameFields(keyIn.pref, keyIn.otherPref)

\* C11: two record pairs with the same field values, whatever the order of
\* their fields, get the same key.
C11_FieldOrderIrrelevant ==
    keyOut.verified /\ SamePair => keyOut.cacheKey = keyOut.differentKey

\* C12: record pairs that differ in the value of a field of the app or of
\* the preference get different keys.
C12_FieldChangeChangesKey ==
    keyOut.verified /\ ~SamePair => keyOut.cacheKey # keyOut.differentKey

\* the preference alone differs, in one field, and the keys differ
C12_Witness ==
    /\ keyOut.verified
    /\ keyIn.app = keyIn.otherApp
    /\ Cardinality(Range(keyIn.pref) \ Range(keyIn.otherPref)) = 1
    /\ keyOut.cacheKey # keyOut.differentKey

\* C20: the key the security simulation computes for a pair is the key the
\* API computes for it, and is a digest of at least 256 bits.
C20_OneKeyConstruction ==
    keyOut.verified /\ keyOut.simulated =>
        /\ keyOut.legitimateHash = keyOut.cacheKey
        /\ DigestBits(keyOut.legitimateHash) >= Sha256Bits

(***************************************************************************)
(* Unknown policy ids (checked under EvalSpec)                             *)
(***************************************************************************)
\* the ids a record holds under the given keys
IdsOf(obj, keys) == UNION { Range(GetOrEmpty(obj, k)) : k \in keys }

\* the app or the preference references an id absent from the taxonomy
ReferencesUnknownId ==
    \/ IdsOf(evApp, {"attributes"}) \cup
       IdsOf(evPref, {"attributes", "exceptions", "denyAttributes"})
           \notin SUBSET DOMAIN PolicyAttributes
    \/ IdsOf(evApp, {"purposes"}) \cup
       IdsOf(evPref, {"allowedPurposes", "prohibitedPurposes", "denyPurposes"})
           \notin SUBSET DOMAIN PolicyPurposes

C14_CacheFailureIsExplicit ==
    res.fault # "none" =>
        /\ res.op = "evaluate" /\ res.status = 500
        /\ res.result = "none" /\ ~res.cacheHit

\* the write after a miss failed, after the evaluator had run
C14_Witness ==
    /\ res.fault = "create" /\ res.status = 500
    /\ Stored(res.appId, res.userId)
    /\ ~HasFreshEntry(res.appId, res.userId)

(***************************************************************************)
(* Racing misses (checked under ConcurrentSpec)                            *)
(***************************************************************************)
\* C15: the store after a miss checks nothing: it inserts one more entry
\* for the request's (user, key) whatever the cache already holds, so two
\* requests that both missed leave two entries for the same pair.
C15_StoreAlwaysInserts ==
    [][\A i \in 1 .. MaxInflight :
        EvaluateStore(i) =>
            /\ Len(cache') = Len(cache) + 1
            /\ cache'[Len(cache')].userId = inflight[i].userId
            /\ cache'[Len(cache')].hash = inflight[i].hashValue
      ]_vars

\* the second of two racing misses has answered: both have written
C15_Witness ==
    /\ Answered /\ ~res.cacheHit
    /\ inflight = <<>>
    /\ Len(cache) = 2
    /\ cache[1].userId = cache[2].userId /\ cache[1].hash = cache[2].hash
    /\ cache[1].userId = res.userId
    /\ Fresh(cache[1], Get(cache[1].pref, "timeofRetention"))

\* the entries of one (user, key) pair, in insertion order
PairEntries(entries, userId, hash) ==
    SelectSeq(entries, LAMBDA e : e.userId = userId /\ e.hash = hash)

\* the pairs that have an entry or a request in flight
KnownPairs ==
    { <<e.userId, e.hash>> : e \in Range(cache) } \cup
    { <<r.userId, r.hashValue>> : r \in Range(inflight) }

\* C16: requests for different (user, key) pairs do not interfere: a lookup
\* answers from the entries of its own pair alone (a hit exactly when one of
\* them is fresh, with the result of the first fresh one), and a store
\* leaves the entries of every other pair as they were.
C16_DifferentPairsIndependent ==
    [][ /\ \A appId \in AppIds, userId \in UserIds :
              EvaluateLookup(appId, userId) /\ Stored(appId, userId) =>
                  LET pref == PreferenceOf(userId)
                      own == PairEntries(cache, userId,
                                         computeCacheKey(apps[appId], pref))
                      fresh == { i \in DOMAIN own :
                                   now - own[i].createdAt <= Get(pref, "timeofRetention") }
                  IN  /\ (inflight' = inflight) <=> (fresh # {})
                      /\ fresh # {} =>
                            /\ res'.cacheHit
                            /\ \E i \in fresh :
                                  /\ \A j \in fresh : i <= j
                                  /\ res'.result = own[i].result
        /\ \A i \in 1 .. MaxInflight :
              EvaluateStore(i) =>
                  \A pair \in KnownPairs :
                      pair # <<inflight[i].userId, inflight[i].hashValue>> =>
                          PairEntries(cache', pair[1], pair[2]) =
                              PairEntries(cache, pair[1], pair[2])
      ]_vars

\* a miss of one user has answered and stored while a request of the other
\* user, for the same key, is between its lookup and its store
C16_Witness ==
    /\ Answered /\ ~res.cacheHit
    /\ cache # <<>>
    /\ cache[Len(cache)].userId = res.userId
    /\ cache[Len(cache)].createdAt = res.at
    /\ \E j \in DOMAIN inflight :
          /\ inflight[j].userId # res.userId
          /\ inflight[j].hashValue = cache[Len(cache)].hash

(***************************************************************************)
(* Invalidation and memoization (checked under Spec)                       *)
(***************************************************************************)
\* the entries of one user, in insertion order
UserEntries(entries, userId) == SelectSeq(entries, LAMBDA e : e.userId = userId)

\* C17: the invalidation of a preference update removes every entry of the
\* updated user and leaves the entries of every other user unchanged.
C17_InvalidateUserFrame ==
    [][\A userId \in UserIds, body \in PreferenceBodies :
        UpdatePreferences(userId, body) /\ res'.status = 200 =>
            /\ UserEntries(cache', userId) = <<>>
            /\ \A other \in UserIds \ {userId} :
                  UserEntries(cache', other) = UserEntries(cache, other)
      ]_vars

\* an update removed entries of its user and entries of another user remain
C17_Witness ==
    /\ res.op = "updatePreferences" /\ res.status = 200
    /\ res.deleted # {}
    /\ \E e \in Range(cache) : e.userId # res.userId

\* C18: clearing the cache leaves no entry, and the decide that follows is
\* a miss whatever its user and app.
C18_ClearLeavesNothing ==
    [][ /\ ClearCache => cache' = <<>>
        /\ \A appId \in AppIds, userId \in UserIds :
              ( /\ Evaluate(appId, userId) /\ Stored(appId, userId)
                /\ res.op = "clearCache" )
              => ~res'.cacheHit
      ]_vars

\* a miss right after a clearing that removed a fresh entry of the pair
C18_Witness == Answered /\ res.afterClear /\ ~res.cacheHit

\* C19: without invalidation the evaluator runs at most once per retention
\* window of a pair: a decide made while an entry of its pair is at most
\* the retention old is a hit and stores nothing, and two entries of one
\* pair are more than the retention apart.
C19_OncePerRetentionWindow ==
    [][ /\ \A appId \in AppIds, userId \in UserIds :
              ( /\ Evaluate(appId, userId) /\ Stored(appId, userId)
                /\ \E e \in EntriesFor(appId, userId) :
                      now <= e.createdAt + Get(PreferenceOf(userId), "timeofRetention") )
              => res'.cacheHit /\ cache' = cache
        /\ \A i, j \in DOMAIN cache' :
              ( /\ i < j
                /\ cache'[i].userId = cache'[j].userId
                /\ cache'[i].hash = cache'[j].hash )
              => cache'[j].createdAt - cache'[i].createdAt
                     > Get(cache'[i].pref, "timeofRetention")
      ]_vars

\* a hit at the end of a window of at least a second, on the only entry
C19_Witness ==
    /\ Answered /\ res.cacheHit
    /\ Stored(res.appId, res.userId)
    /\ Get(PreferenceOf(res.userId), "timeofRetention") >= 1
    /\ Cardinality(EntriesFor(res.appId, res.userId)) = 1
    /\ \A e \in EntriesFor(res.appId, res.userId) :
          res.at = e.createdAt + Get(PreferenceOf(res.userId), "timeofRetention")

(***************************************************************************)
(* Isolation of the lookup (checked under PoisonSpec)                      *)
(***************************************************************************)
\* C21: a decide for (user, key) is decided by the entries stored under
\* exactly that user and that key: it is a hit exactly when one of them is
\* fresh, and its result is the evaluation of its own app and preference,
\* whatever is stored for another user under the same key or for the same
\* user under another hash.
C21_LookupIsolation ==
    [][\A appId \in AppIds, userId \in UserIds :
        Evaluate(appId, userId) /\ Stored(appId, userId) =>
            LET pref == PreferenceOf(userId)
                own == PairEntries(cache, userId, computeCacheKey(apps[appId], pref))
            IN  /\ res'.cacheHit <=>
                       \E i \in DOMAIN own :
                           now - own[i].createdAt <= Get(pref, "timeofRetention")
                /\ res'.result = Decision(evaluate(apps[appId], users[userId]))
      ]_vars

\* a decide has missed and answered its own evaluation while an injected
\* grant of its user, made in the same second, is stored
C21_Witness ==
    /\ Answered /\ ~res.cacheHit /\ res.result = "deny"
    /\ \E e \in Range(cache) :
          /\ e.userId = res.userId
          /\ e.result = "grant"
          /\ e.createdAt = res.at

(***************************************************************************)
(* Frame of decide (checked under Spec)                                    *)
(***************************************************************************)
IsPrefix(s, t) == Len(s) <= Len(t) /\ SubSeq(t, 1, Len(s)) = s

\* C22: a decide never removes or rewrites an entry: a hit leaves the cache
\* as it is (createdAt included), a miss appends exactly one entry of its own
\* user and key and leaves every older entry, expired ones too, in place; and
\* no step but a user's invalidation or the clearing of the cache removes one.
C22_DecideOnlyAppends ==
    [][/\ \A appId \in AppIds, userId \in UserIds :
            Evaluate(appId, userId) /\ Stored(appId, userId) =>
                IF res'.cacheHit
                THEN cache' = cache
                ELSE /\ Len(cache') = Len(cache) + 1
                     /\ IsPrefix(cache, cache')
                     /\ cache'[Len(cache')].userId = userId
                     /\ cache'[Len(cache')].hash =
                            computeCacheKey(apps[appId], PreferenceOf(userId))
       /\ \/ IsPrefix(cache, cache')
          \/ ClearCache
          \/ \E userId \in UserIds, body \in PreferenceBodies :
                UpdatePreferences(userId, body)
      ]_vars

\* a decide has missed on an expired entry of its pair, which is still
\* stored next to the entry the miss added
C22_Witness ==
    /\ Answered /\ ~res.cacheHit
    /\ \E i, j \in DOMAIN cache :
          /\ i < j
          /\ cache[i].userId = res.userId /\ cache[j].userId = res.userId
          /\ cache[i].hash = cache[j].hash
          /\ cache[j].createdAt = res.at
          /\ res.at - cache[i].createdAt >
                 Get(PreferenceOf(res.userId), "timeofRetention")

(***************************************************************************)
(* Rejected requests (checked under Spec)                                  *)
(***************************************************************************)
Rejected(r) == r.status \in {400, 404}

\* C28: a request the API rejects leaves the cache as it was: an evaluate
\* answered 400 or 404 creates no entry, a preference update answered 400 or
\* 404 deletes none.
C28_RejectedLeavesCache ==
    [][/\ \A appId \in AppIds \cup {""}, userId \in UserIds \cup {""} :
            Evaluate(appId, userId) /\ Rejected(res') => cache' = cache
       /\ \A userId \in UserIds, body \in PreferenceBodies :
            UpdatePreferences(userId, body) /\ Rejected(res') => cache' = cache
      ]_vars

\* a preference update was rejected while entries are stored
C28_Witness ==
    /\ res.op = "updatePreferences"
    /\ Rejected(res)
    /\ cache # <<>>

(***************************************************************************)
(* Validity of the installed taxonomies (checked under PolicySpec)         *)
(***************************************************************************)
Bounds(tree) == {tree[i].left : i \in DOMAIN tree} \cup {tree[i].right : i \in DOMAIN tree}

\* a nested set: every interval is proper, no bound is used twice, and two
\* intervals are nested or disjoint
ValidNestedSet(tree) ==
    /\ \A i \in DOMAIN tree : tree[i].left < tree[i].right
    /\ Cardinality(Bounds(tree)) = 2 * Len(tree)
    /\ \A i, j \in DOMAIN tree :
          i # j =>
              \/ tree[i].left < tree[j].left /\ tree[j].right < tree[i].right
              \/ tree[j].left < tree[i].left /\ tree[i].right < tree[j].right
              \/ tree[i].right < tree[j].left
              \/ tree[j].right < tree[i].left

\* C23: the taxonomies the bootstraps install are valid nested sets: their
\* bounds are pairwise distinct and their intervals nested or disjoint, with
\* no bound shared by two elements.
C23_BootstrapTaxonomiesValid ==
    \A d \in DOMAIN policy :
        ValidNestedSet(policy[d].attributes) /\ ValidNestedSet(policy[d].purposes)

(***************************************************************************)
(* The flat baseline against the containment evaluator (under EvalSpec)    *)
(***************************************************************************)
\* no element among ids is the ancestor of another: over these ids the
\* taxonomy has no hierarchy, and containment is equality
Unrelated(tree, ids) ==
    /\ ids \subseteq DOMAIN tree
    /\ \A a, b \in ids : a # b => ~IntervalContains(tree[a], tree[b])

NoHierarchyInUse ==
    /\ Unrelated(PolicyAttributes,
           IdsOf(evApp, {"attributes"}) \cup
           IdsOf(evPref, {"attributes", "exceptions", "denyAttributes"}))
    /\ Unrelated(PolicyPurposes,
           IdsOf(evApp, {"purposes"}) \cup
           IdsOf(evPref, {"allowedPurposes", "prohibitedPurposes", "denyPurposes"}))

\* C27: where the taxonomy puts no hierarchy between the ids in use, the flat
\* baseline returns the grant or deny of the containment evaluator, for every
\* app and preference: also when only some of the app's attributes are
\* excepted or denied, and when a list of the app is empty.
C27_FlatRefinesContainment ==
    evOut.fn = "flat" /\ NoHierarchyInUse =>
        evOut.result = Decision(evaluate(evApp, UserObject(evPref)))

(***************************************************************************)
(* A decide that overlaps a preference update (under ConcurrentSpec)       *)
(***************************************************************************)
\* C24: once a decide and a preference update of the same user that
\* overlapped have both finished, the cache holds no entry of the user that
\* was computed from the preference the update replaced.
C24_NoEntryOfReplacedPreference ==
    inflight = <<>> =>
        \A e \in Range(cache) : e.pref = PreferenceOf(e.userId)

(***************************************************************************)
(* The edge cache of the fog simulator (checked under FogSpec)             *)
(***************************************************************************)
\* C25: the decision an edge node returns from its cache is the one the
\* cloud's evaluate API stands for at that moment: it was computed from the
\* user's current preference, no longer ago than the retention window.  After
\* a preference update or the window the simulator does not return the
\* earlier decision.
C25_EdgeHitIsCurrent ==
    [][\A edgeNode \in EdgeNodeIds, appId \in AppIds, userId \in UserIds :
          /\ \/ SimulateRequest(edgeNode, appId, userId)
             \/ ProcessRequest(edgeNode, appId, userId)
          /\ fogRes'.status = "returned"
          /\ fogRes'.edgeCacheHit
          => /\ fogRes'.pref = PreferenceOf(userId)
             /\ now - fogRes'.timestamp <=
                    Get(PreferenceOf(userId), "timeofRetention")
             /\ fogRes'.result = Decision(evaluate(apps[appId], users[userId]))
      ]_vars

EdgeRequest(edgeNode, appId, userId) ==
    \/ SimulateRequest(edgeNode, appId, userId)
    \/ ProcessRequest(edgeNode, appId, userId)
    \/ CloudUnreachable(edgeNode, appId, userId)

\* C26: a request through an edge node calls the cloud API exactly when the
\* node holds no entry for the key appId-userId.  A miss the cloud answers
\* stores the answer under that key and nothing else, a miss whose call to
\* the cloud fails stores nothing, a hit changes nothing and leaves the cloud
\* alone; and an entry stays as it is in every step but clearCaches.
C26_CloudCalledIffEdgeMiss ==
    [][/\ \A edgeNode \in EdgeNodeIds, appId \in AppIds, userId \in UserIds :
            EdgeRequest(edgeNode, appId, userId) =>
                LET key == EdgeCacheKey(appId, userId)
                    held == Has(localCache[edgeNode], key)
                IN  /\ fogRes'.cloudCalled <=> ~held
                    /\ fogRes'.edgeCacheHit <=> held
                    /\ held => localCache' = localCache /\ cache' = cache /\ res' = res
                    /\ ~held /\ fogRes'.status = "returned" =>
                          /\ Has(localCache'[edgeNode], key)
                          /\ localCache'[edgeNode] =
                                 Append(localCache[edgeNode],
                                        <<key, Get(localCache'[edgeNode], key)>>)
                          /\ Get(localCache'[edgeNode], key).result = res'.result
                          /\ \A other \in EdgeNodeIds \ {edgeNode} :
                                localCache'[other] = localCache[other]
                    /\ fogRes'.status = "threw" => localCache' = localCache
       /\ \/ ClearCaches
          \/ \A e \in EdgeNodeIds : IsPrefix(localCache[e], localCache'[e])
      ]_vars

\* a request has hit at one edge node, without a call to the cloud, while the
\* other edge node holds nothing for the pair
C26_Witness ==
    /\ fogRes.status = "returned" /\ fogRes.edgeCacheHit /\ ~fogRes.cloudCalled
    /\ Has(localCache[fogRes.edgeNodeId], EdgeCacheKey(fogRes.appId, fogRes.userId))
    /\ \E other \in EdgeNodeIds :
          ~Has(localCache[other], EdgeCacheKey(fogRes.appId, fogRes.userId))

(***************************************************************************)
(* Resources of an IoT device (checked under DeviceSpec)                   *)
(***************************************************************************)
\* C30: when a sendRequest has ended, by returning or by throwing,
\* currentCpu and currentMemory are 0 again, so that no later sendRequest
\* fails with 'Memory exhausted'.
C30_ResourcesReleased ==
    /\ devRes # "none" => device.currentCpu = 0 /\ device.currentMemory = 0
    /\ devRes # "Memory exhausted"

(***************************************************************************)
(* Termination of the sampling loop (checked under MonitorFairSpec)        *)
(***************************************************************************)
\* C29: once the monitored function has settled, resolved or rejected, the
\* background sampling loop eventually stops.
C29_SamplingStops ==
    (fn.state \in {"resolved", "rejected"}) ~> (taskPc = "done")
====
